---- MODULE Spec2Model ----
(***************************************************************************)
(* Board-state engine of the 5x5 slide puzzle in src/src/main.rs: the grid *)
(* of optional pieces, the cursor, the buffered input, the per-entity      *)
(* tweens, the tween-completed events and the clear-count text, driven by  *)
(* the per-frame systems registered in main().                             *)
(*                                                                         *)
(* Time is counted in frame times (FRAME_TIME = 1/60 s): a tween of        *)
(* PIECE_SLICE_DURATION lasts 5 units, the start-up tweens of one second   *)
(* last 60 units, an input is stale after more than 3 units.               *)
(***************************************************************************)
EXTENDS Integers, Sequences, FiniteSets, TLC

VARIABLES
    piece_state,     \* BoardState.piece_state[y][x].piece : a piece or None
    board_location,  \* BoardLocation of the PlayerCursor entity: [x, y]
    prev_input,      \* PreviousInput: [elapsed, direction, shift_held]
    animator,        \* animator[y][x]: frame times left of the cell entity's tween
    extra,           \* BoardState.extra_entity: [sprite, left, tagged]
    events,          \* TweenCompleted events not yet read by update_complete_count
    text,            \* ClearCountText, sections[1]: the number shown
    panicked,        \* an Option::unwrap on None aborted the program
    delta,           \* Time::delta() of the current frame, in frame times
    chain,           \* systems of the chained tuple already run this frame (0..3)
    ran,             \* unordered systems already run this frame
    frame,           \* number of the current frame, from 1
    reset_hit,       \* maybe_reset_board saw Space just pressed in this frame
    filler           \* randomly_fill_board's position (outside or inside its
                     \* loop) and its local filled_board

vars == <<piece_state, board_location, prev_input, animator, extra, events,
          text, panicked, delta, chain, ran, frame, reset_hit, filler>>

----------------------------------------------------------------------------
(* Bounds of the exploration. *)

\* Frames explored from start-up (by the main specification).
MaxFrames == 3

\* Rows and columns overwritten to make a board for the match detector.
MaxStamps == 2

\* Cells of a round whose draw is followed over all six pieces; with 25
\* every draw of the round is.
MaxFree == 1

----------------------------------------------------------------------------
(* Program constants, in frame times. *)

PIECE_SLICE_DURATION == 5

STALE_FRAMES == 3

STARTUP_TWEEN == 60

\* The stopwatch of PreviousInput is followed up to one frame time past the
\* stale threshold: the code only ever compares it with FRAME_TIME * 3, so
\* every larger value behaves like this one.
ElapsedCap == STALE_FRAMES + 1

\* Time::delta() values a frame may have: a regular frame, and a hitch of a
\* second (window drag, asset loading).
Deltas == {1, STARTUP_TWEEN}

----------------------------------------------------------------------------
(* Piece catalog. *)

None == "None"

all_pieces == <<"Mascot", "Checkered", "Donut", "Flower", "Green", "Heart">>

Piece == {all_pieces[i] : i \in 1..Len(all_pieces)}

texture_index(p) == CHOOSE i \in 0..5 : all_pieces[i + 1] = p

Direction == {"Up", "Down", "Left", "Right"}

Idx == 0..4

----------------------------------------------------------------------------
(* Grid queries. *)

\* BoardState::has_empty
has_empty(ps) == \E y \in Idx : \E x \in Idx : ps[y][x] = None

\* (mutant) board_has_clear without its column loop
board_has_clear_rows_only(board) ==
    \E y \in Idx : \A x \in Idx : board[y][0] = board[y][x]

\* board_has_clear: some row or some column of a full board is uniform
board_has_clear(board) ==
    \/ \E y \in Idx : \A x \in Idx : board[y][0] = board[y][x]
    \/ \E x \in Idx : \A y \in Idx : board[0][x] = board[y][x]

----------------------------------------------------------------------------
(* Match detector: BoardState::count_clears.  ignored_rows and ignored_cols *)
(* are bit masks, as in the code.                                           *)

Bit(mask, n) == (mask \div (2 ^ n)) % 2 = 1

SetBit(mask, n) == IF Bit(mask, n) THEN mask ELSE mask + 2 ^ n

\* The mask value the loop's exit test compares both masks with (0b1111).
EXIT_MASK == 15

\* (0..5).filter(|n| ignored & (1 << n) == 0), in ascending order
NotIgnored(mask) == SelectSeq(<<0, 1, 2, 3, 4>>, LAMBDA n : ~Bit(mask, n))

\* IteratorExt::all_equal over .map(|n| cell.piece.unwrap()): the iterator is
\* lazy, so a cell is unwrapped only when it is reached; `all` stops at the
\* first element that differs from the first one.
all_equal(items) ==
    IF Len(items) = 0 THEN [eq |-> TRUE, panic |-> FALSE]
    ELSE IF items[1] = None THEN [eq |-> FALSE, panic |-> TRUE]
    ELSE LET differ == {i \in 2..Len(items) : items[i] # items[1]}
         IN  IF differ = {} THEN [eq |-> TRUE, panic |-> FALSE]
             ELSE LET k == CHOOSE i \in differ : \A j \in differ : i <= j
                  IN  [eq |-> FALSE, panic |-> items[k] = None]

\* the cells of row nrow in the columns not ignored
RowItems(ps, nrow, ignored_cols) ==
    LET cols == NotIgnored(ignored_cols)
    IN  [i \in 1..Len(cols) |-> ps[nrow][cols[i]]]

\* (mutant) the column scan looks at all five rows
ColItemsAllRows(ps, ncol, ignored_rows) == [i \in 1..5 |-> ps[i - 1][ncol]]

\* the cells of column ncol in the rows not ignored
ColItems(ps, ncol, ignored_rows) ==
    LET rows == NotIgnored(ignored_rows)
    IN  [i \in 1..Len(rows) |-> ps[rows[i]][ncol]]

\* for nrow in 0..5 { ... }, from nrow on
RECURSIVE RowScan(_, _, _)
RowScan(ps, st, nrow) ==
    IF nrow = 5 \/ st.panic THEN st
    ELSE IF Bit(st.ignored_rows, nrow) THEN RowScan(ps, st, nrow + 1)
    ELSE LET r == all_equal(RowItems(ps, nrow, st.ignored_cols))
         IN  IF r.panic THEN [st EXCEPT !.panic = TRUE]
             ELSE IF r.eq
             THEN RowScan(ps, [st EXCEPT !.cnt = @ + 1,
                                         !.ignored_rows = SetBit(@, nrow)],
                          nrow + 1)
             ELSE RowScan(ps, st, nrow + 1)

\* for ncol in 0..5 { ... }, from ncol on
RECURSIVE ColScan(_, _, _)
ColScan(ps, st, ncol) ==
    IF ncol = 5 \/ st.panic THEN st
    ELSE IF Bit(st.ignored_cols, ncol) THEN ColScan(ps, st, ncol + 1)
    ELSE LET r == all_equal(ColItems(ps, ncol, st.ignored_rows))
         IN  IF r.panic THEN [st EXCEPT !.panic = TRUE]
             ELSE IF r.eq
             THEN ColScan(ps, [st EXCEPT !.cnt = @ + 1,
                                         !.ignored_cols = SetBit(@, ncol)],
                          ncol + 1)
             ELSE ColScan(ps, st, ncol + 1)

\* (mutant) a pass that adds 2 to cnt for every line it claims
ClearPassCountsTwice(ps, st) ==
    LET after == ColScan(ps, RowScan(ps, st, 0), 0)
    IN  [after EXCEPT !.cnt = st.cnt + 2 * (after.cnt - st.cnt)]

\* one iteration of the loop body: the row scan, then the column scan
ClearPass(ps, st) == ColScan(ps, RowScan(ps, st, 0), 0)

\* the exit test of the faked do-while
ClearLoopExit(prev_cnt, st) ==
    prev_cnt = st.cnt \/ st.ignored_rows = EXIT_MASK \/ st.ignored_cols = EXIT_MASK

RECURSIVE ClearLoop(_, _)
ClearLoop(ps, st) ==
    LET after == ClearPass(ps, st)
    IN  IF after.panic \/ ClearLoopExit(st.cnt, after) THEN after
        ELSE ClearLoop(ps, after)

\* the whole run: the counters at the return (or at the panic)
count_clears_run(ps) ==
    ClearLoop(ps, [cnt |-> 0, ignored_rows |-> 0, ignored_cols |-> 0,
                   panic |-> FALSE])

count_clears(ps) == count_clears_run(ps).cnt

----------------------------------------------------------------------------
(* Board filler: randomly_fill_board.                                       *)

\* One round of the rejection loop draws a piece for every empty cell,
\* each from the six pieces: a round is written as the 25 pieces the
\* generator holds for the 25 cells, of which the loop takes those of the
\* empty cells.  Draws is every round the generator can give.
Draws == [Idx -> [Idx -> Piece]]

\* boards of the match detector's specification, and rounds like any other
DrawDiagonal == [y \in Idx |-> [x \in Idx |-> all_pieces[((x + y) % 6) + 1]]]

DrawUniform == [y \in Idx |-> [x \in Idx |-> "Mascot"]]

\* A round with row 3 and column 0 one piece away from uniform.
DrawNearClear ==
    LET rows == << <<"Heart", "Mascot",    "Checkered", "Flower", "Donut">>,
                   <<"Heart", "Flower",    "Donut",     "Mascot", "Checkered">>,
                   <<"Heart", "Checkered", "Green",     "Donut",  "Flower">>,
                   <<"Green", "Green",     "Flower",    "Green",  "Green">>,
                   <<"Heart", "Donut",     "Mascot",    "Checkered", "Mascot">> >>
    IN  [y \in Idx |-> [x \in Idx |-> rows[y + 1][x + 1]]]

\* The rounds that are followed, a part of Draws bounded by MaxFree: the
\* draws of the cells FreeCell(1) .. FreeCell(MaxFree) are any of the six
\* pieces, each on its own, and the draws of the other cells are those of
\* DrawNearClear.  FreeCell numbers the 25 cells in the order of the loop,
\* row after row and x ascending within a row, from the start of row 3 and
\* round to the end of row 2, so with MaxFree = 25 every cell is free and
\* Rounds is Draws.  Heart at (3, 0) makes column 0 uniform, Green at
\* (3, 0), (3, 1) and (3, 2) makes row 3 uniform, so the loop's exit test
\* fails on some rounds and holds on the others.
FreeCell(i) ==
    LET k == (3 * 5 + (i - 1)) % (5 * 5)
    IN  [y |-> k \div 5, x |-> k % 5]

RECURSIVE RoundsFree(_)
RoundsFree(n) ==
    IF n = 0 THEN {DrawNearClear}
    ELSE {[r EXCEPT ![FreeCell(n).y][FreeCell(n).x] = p] :
             r \in RoundsFree(n - 1), p \in Piece}

Rounds == RoundsFree(MaxFree)

\* (mutant) one piece is drawn per round and put into every empty cell
FillRoundOneChoice(starting_board, draw) ==
    [y \in Idx |-> [x \in Idx |->
        IF starting_board[y][x] # None THEN starting_board[y][x] ELSE draw[0][0]]]

\* one round of the loop: occupied cells are kept, empty cells take the draw
FillRound(starting_board, draw) ==
    [y \in Idx |-> [x \in Idx |->
        IF starting_board[y][x] # None THEN starting_board[y][x] ELSE draw[y][x]]]

\* (mutant) the exit test looks at the rows only
FillAcceptedRowsOnly(fb) ==
    ~\E y \in Idx : \A x \in Idx : fb[y][0] = fb[y][x]

\* the loop's exit test: the round's board is kept when it has no clear
FillAccepted(fb) == ~board_has_clear(fb)

\* (mutant) the write-back loop with its occupancy test inverted
FillWriteBackSkipsEmpty(ps, fb) ==
    [y \in Idx |-> [x \in Idx |->
        IF ps[y][x] = None THEN ps[y][x] ELSE fb[y][x]]]

\* the write-back loop: only the cells that were empty take the new piece
FillWriteBack(ps, fb) ==
    [y \in Idx |-> [x \in Idx |->
        IF ps[y][x] # None THEN ps[y][x] ELSE fb[y][x]]]

----------------------------------------------------------------------------
(* Slide engine: the shift_held branch of move_player_cursor.               *)

\* (mutant) the line picked by the cursor's other coordinate
SlideIndicesByOtherCoordinate(direction, loc) ==
    IF direction \in {"Up", "Down"}
    THEN [i \in 1..5 |-> [x |-> loc.y, y |-> i - 1]]
    ELSE [i \in 1..5 |-> [x |-> i - 1, y |-> loc.x]]

\* the five (x, y) cells of the selected line, in ascending index order
SlideIndices(direction, loc) ==
    IF direction \in {"Up", "Down"}
    THEN [i \in 1..5 |-> [x |-> loc.x, y |-> i - 1]]
    ELSE [i \in 1..5 |-> [x |-> i - 1, y |-> loc.y]]

\* (mutant) the offsets of Up and Down exchanged
SlideRawOffsetSwapped(direction) ==
    CASE direction = "Up"    -> [x |-> 0, y |-> 4]
      [] direction = "Down"  -> [x |-> 0, y |-> 1]
      [] direction = "Left"  -> [x |-> 4, y |-> 0]
      [] direction = "Right" -> [x |-> 1, y |-> 0]

\* (offset_x, offset_y) of the first match
SlideRawOffset(direction) ==
    CASE direction = "Up"    -> [x |-> 0, y |-> 1]
      [] direction = "Down"  -> [x |-> 0, y |-> 4]
      [] direction = "Left"  -> [x |-> 4, y |-> 0]
      [] direction = "Right" -> [x |-> 1, y |-> 0]

Max(a, b) == IF a >= b THEN a ELSE b

\* (mutant) the rotation made toward the lower indices: rotate_left(k)
rotate_left_instead(s, k) ==
    [i \in 1..Len(s) |-> s[((i - 1 + k) % Len(s)) + 1]]

\* <[T]>::rotate_right(k): the element at i moves to (i + k) mod len
rotate_right(s, k) ==
    [i \in 1..Len(s) |-> s[((i - 1 - k + Len(s)) % Len(s)) + 1]]

\* match offset { 0 => 0, 4 => 1, _ => -1 }
SlideSignedOffset(o) == IF o = 0 THEN 0 ELSE IF o = 4 THEN 1 ELSE -1

\* (mutant) the line shifted by one without the wrap: the first piece is
\* doubled, the last one is lost
SlidePieceTypesNoWrap(ps, direction, loc) ==
    LET indices == SlideIndices(direction, loc)
    IN  [i \in 1..5 |-> ps[indices[Max(i - 1, 1)].y][indices[Max(i - 1, 1)].x]]

\* the rotated piece_types of the selected line
SlidePieceTypes(ps, direction, loc) ==
    LET indices == SlideIndices(direction, loc)
        raw     == SlideRawOffset(direction)
    IN  rotate_right([i \in 1..5 |-> ps[indices[i].y][indices[i].x]],
                     Max(raw.x, raw.y))

\* (mutant) last_index with its test inverted
SlideLastIndexInverted(direction) ==
    IF direction \in {"Up", "Right"} THEN 0 ELSE 4

\* last_index: the end of the line the extra entity starts from
SlideLastIndex(direction) ==
    LET raw == SlideRawOffset(direction)
        ox  == SlideSignedOffset(raw.x)
        oy  == SlideSignedOffset(raw.y)
        li  == IF ox # 0 THEN ox ELSE oy
    IN  IF li = -1 THEN 4 ELSE 0

\* sprite.index of the extra entity: piece_types[4 - last_index]
SlideExtraSprite(ps, direction, loc) ==
    texture_index(SlidePieceTypes(ps, direction, loc)[(4 - SlideLastIndex(direction)) + 1])

\* the board after the zip loop wrote piece_types into the line's cells
SlideBoard(ps, direction, loc) ==
    LET indices == SlideIndices(direction, loc)
        types   == SlidePieceTypes(ps, direction, loc)
    IN  [y \in Idx |-> [x \in Idx |->
            IF \E i \in 1..5 : indices[i] = [x |-> x, y |-> y]
            THEN types[CHOOSE i \in 1..5 : indices[i] = [x |-> x, y |-> y]]
            ELSE ps[y][x]]]

\* the tweens the zip loop starts: the line's five entities
SlideAnimators(an, direction, loc) ==
    LET indices == SlideIndices(direction, loc)
    IN  [y \in Idx |-> [x \in Idx |->
            IF \E i \in 1..5 : indices[i] = [x |-> x, y |-> y]
            THEN PIECE_SLICE_DURATION ELSE an[y][x]]]

\* (mutant) the plain cursor move stopping at the edges instead of wrapping
MoveCursorClamped(loc, direction) ==
    CASE direction = "Up"    -> [loc EXCEPT !.y = IF loc.y = 4 THEN 4 ELSE loc.y + 1]
      [] direction = "Down"  -> [loc EXCEPT !.y = IF loc.y = 0 THEN 0 ELSE loc.y - 1]
      [] direction = "Left"  -> [loc EXCEPT !.x = IF loc.x = 0 THEN 0 ELSE loc.x - 1]
      [] direction = "Right" -> [loc EXCEPT !.x = IF loc.x = 4 THEN 4 ELSE loc.x + 1]

\* the plain cursor move: the final match of move_player_cursor
MoveCursor(loc, direction) ==
    CASE direction = "Up"    -> [loc EXCEPT !.y = (loc.y + 1) % 5]
      [] direction = "Down"  -> [loc EXCEPT !.y = (loc.y + 4) % 5]
      [] direction = "Left"  -> [loc EXCEPT !.x = (loc.x + 4) % 5]
      [] direction = "Right" -> [loc EXCEPT !.x = (loc.x + 1) % 5]

----------------------------------------------------------------------------
(* The per-frame systems.                                                   *)

Min(a, b) == IF a <= b THEN a ELSE b

Unordered == {"update_complete_count", "randomly_fill_board", "component_animator_system"}

Running == ~panicked

\* randomly_fill_board outside its loop: filled_board as line 579 makes it
FillerIdle == [pc |-> "idle", filled_board |-> [y \in Idx |-> [x \in Idx |-> "Mascot"]]]

\* No system holds BoardState: randomly_fill_board takes it as ResMut and
\* keeps it until it returns, so the systems that take BoardState
\* (move_player_cursor, maybe_reset_board, update_complete_count) do not run
\* while it is in its loop; update_input and the animator can.
BoardStateFree == filler.pc = "idle"

\* BoardState::empty: every cell holds no piece
Init_piece_state == [y \in Idx |-> [x \in Idx |-> None]]

\* the state after setup, as frame number first_frame of the exploration
InitAt(first_frame) ==
    /\ piece_state = Init_piece_state
    /\ board_location = [x |-> 2, y |-> 2]
    /\ prev_input = [elapsed |-> 0, direction |-> None, shift_held |-> FALSE]
    /\ animator = [y \in Idx |-> [x \in Idx |-> STARTUP_TWEEN]]
    /\ extra = [sprite |-> 0, left |-> STARTUP_TWEEN, tagged |-> FALSE]
    /\ events = 0
    /\ text = 0
    /\ panicked = FALSE
    /\ delta \in Deltas
    /\ chain = 0
    /\ ran = {}
    /\ frame = first_frame
    /\ reset_hit = FALSE
    /\ filler = FillerIdle

Init == InitAt(1)

\* update_input, with the keys of this frame: the direction key that was
\* just pressed (or none) and whether a shift key is down
UpdateInput(pressed, shift) ==
    IF pressed = None
    THEN IF prev_input.direction # None
         THEN [prev_input EXCEPT !.elapsed = Min(@ + delta, ElapsedCap)]
         ELSE prev_input
    ELSE [elapsed |-> 0, direction |-> pressed, shift_held |-> shift]

update_input ==
    /\ Running
    /\ chain = 0
    /\ \E pressed \in Direction \cup {None} : \E shift \in BOOLEAN :
           prev_input' = UpdateInput(pressed, shift)
    /\ chain' = 1
    /\ UNCHANGED <<piece_state, board_location, animator, extra, events, text,
                   panicked, delta, ran, frame, reset_hit, filler>>

\* anim.tweenable().progress() < 1.0 for some entity with an Animator
anim_in_progress(an, ex) ==
    \/ \E y \in Idx : \E x \in Idx : an[y][x] > 0
    \/ ex.left > 0

\* (mutant) the early return without the animation test
MoveBlockedByEmptyOnly(ps, an, ex) == has_empty(ps)

\* the early return of move_player_cursor
MoveBlocked(ps, an, ex) == anim_in_progress(an, ex) \/ has_empty(ps)

\* (mutant) the stale test compares with 30 frame times
MoveStaleAfterThirty(elapsed) == elapsed > STALE_FRAMES * 10

\* prev_input.elapsed.elapsed_secs() > FRAME_TIME * 3.0
MoveStale(elapsed) == elapsed > STALE_FRAMES

\* (mutant) the buffered input is taken and dropped when the early return
\* is hit
MoveOutcomeTakesWhenBlocked ==
    IF prev_input.direction = None
    THEN IF MoveBlocked(piece_state, animator, extra) THEN "blocked" ELSE "idle"
    ELSE IF MoveBlocked(piece_state, animator, extra) THEN "stale"
    ELSE IF MoveStale(prev_input.elapsed) THEN "stale"
    ELSE IF prev_input.shift_held THEN "slide"
    ELSE "cursor"

\* what move_player_cursor does about the buffered input
MoveOutcome ==
    IF MoveBlocked(piece_state, animator, extra) THEN "blocked"
    ELSE IF prev_input.direction = None THEN "idle"
    ELSE IF MoveStale(prev_input.elapsed) THEN "stale"
    ELSE IF prev_input.shift_held THEN "slide"
    ELSE "cursor"

move_player_cursor ==
    /\ Running
    /\ BoardStateFree
    /\ chain = 1
    /\ chain' = 2
    /\ LET outcome == MoveOutcome
           dir     == prev_input.direction
       IN  /\ prev_input' = IF outcome \in {"stale", "slide", "cursor"}
                            THEN [prev_input EXCEPT !.direction = None]
                            ELSE prev_input
           /\ piece_state' = IF outcome = "slide"
                             THEN SlideBoard(piece_state, dir, board_location)
                             ELSE piece_state
           /\ animator' = IF outcome = "slide"
                          THEN SlideAnimators(animator, dir, board_location)
                          ELSE animator
           /\ extra' = IF outcome = "slide"
                       THEN [sprite |-> SlideExtraSprite(piece_state, dir, board_location),
                             left   |-> PIECE_SLICE_DURATION,
                             tagged |-> TRUE]
                       ELSE extra
           /\ board_location' = IF outcome = "cursor"
                                THEN MoveCursor(board_location, dir)
                                ELSE board_location
    /\ UNCHANGED <<events, text, panicked, delta, ran, frame, reset_hit, filler>>

\* (mutant) the reset empties the first row only
ResetBoardFirstRowOnly(ps, space) ==
    IF space THEN [y \in Idx |-> [x \in Idx |-> IF y = 0 THEN None ELSE ps[y][x]]]
    ELSE ps

\* maybe_reset_board, with whether Space was just pressed this frame
ResetBoard(ps, space) ==
    IF space THEN [y \in Idx |-> [x \in Idx |-> None]] ELSE ps

maybe_reset_board ==
    /\ Running
    /\ BoardStateFree
    /\ chain = 2
    /\ chain' = 3
    /\ \E space \in BOOLEAN :
          /\ reset_hit' = space
          /\ piece_state' = ResetBoard(piece_state, space)
    /\ UNCHANGED <<board_location, prev_input, animator, extra, events, text,
                   panicked, delta, ran, frame, filler>>

\* (mutant) the count is added to the number shown
ClearCountTextAdded(old, cnt) == old + cnt

\* text.sections[1].value = format!("{}", board_state.count_clears())
ClearCountText(old, cnt) == cnt

\* update_complete_count: every unread PIECE_SLIDE_COMPLETED event sets the
\* text to count_clears(); an unwrap of an empty cell aborts
update_complete_count ==
    /\ Running
    /\ BoardStateFree
    /\ "update_complete_count" \notin ran
    /\ ran' = ran \cup {"update_complete_count"}
    /\ LET run == count_clears_run(piece_state)
       IN  IF events = 0
           THEN UNCHANGED <<text, panicked>>
           ELSE IF run.panic
           THEN panicked' = TRUE /\ UNCHANGED text
           ELSE text' = ClearCountText(text, run.cnt) /\ UNCHANGED panicked
    /\ events' = 0
    /\ UNCHANGED <<piece_state, board_location, prev_input, animator, extra,
                   delta, chain, frame, reset_hit, filler>>

\* randomly_fill_board, one step for the early return and one for every
\* round of its loop.  On a board without an empty cell it returns at once.
\* Else a round is drawn (lines 579-588): when its board has no clear the
\* loop breaks, the empty cells take the round's pieces and the system
\* returns; when it has one the loop goes round again, which it does for as
\* long as the rounds drawn are rejected.
randomly_fill_board ==
    /\ Running
    /\ "randomly_fill_board" \notin ran
    /\ IF ~has_empty(piece_state)
       THEN /\ ran' = ran \cup {"randomly_fill_board"}
            /\ UNCHANGED <<piece_state, filler>>
       ELSE \E round \in Rounds :
               IF FillAccepted(FillRound(piece_state, round))
               THEN /\ piece_state' = FillWriteBack(piece_state, FillRound(piece_state, round))
                    /\ filler' = FillerIdle
                    /\ ran' = ran \cup {"randomly_fill_board"}
               ELSE /\ filler' = [pc |-> "loop", filled_board |-> FillRound(piece_state, round)]
                    /\ UNCHANGED <<piece_state, ran>>
    /\ UNCHANGED <<board_location, prev_input, animator, extra, events, text,
                   panicked, delta, chain, frame, reset_hit>>

\* randomly_fill_board returns: the early return, or a round without a clear
FillReturns == randomly_fill_board /\ "randomly_fill_board" \in ran'

\* bevy_tweening's animator system (TweeningPlugin): every tween advances by
\* the frame's delta; a tween that completes with a completed-event tag sends
\* TweenCompleted once
TweenTick(left) == IF left > delta THEN left - delta ELSE 0

component_animator_system ==
    /\ Running
    /\ "component_animator_system" \notin ran
    /\ ran' = ran \cup {"component_animator_system"}
    /\ animator' = [y \in Idx |-> [x \in Idx |-> TweenTick(animator[y][x])]]
    /\ extra' = [extra EXCEPT !.left = TweenTick(@)]
    /\ events' = IF extra.left > 0 /\ TweenTick(extra.left) = 0 /\ extra.tagged
                 THEN events + 1 ELSE events
    /\ UNCHANGED <<piece_state, board_location, prev_input, text, panicked,
                   delta, chain, frame, reset_hit, filler>>

\* the frame boundary: the schedule has run; the next frame starts
FrameDone == chain = 3 /\ ran = Unordered

next_frame ==
    /\ Running
    /\ FrameDone
    /\ frame < MaxFrames
    /\ frame' = frame + 1
    /\ chain' = 0
    /\ ran' = {}
    /\ delta' \in Deltas
    /\ reset_hit' = FALSE
    /\ UNCHANGED <<piece_state, board_location, prev_input, animator, extra,
                   events, text, panicked, filler>>

Next ==
    \/ update_input
    \/ move_player_cursor
    \/ maybe_reset_board
    \/ update_complete_count
    \/ randomly_fill_board
    \/ component_animator_system
    \/ next_frame

Spec == Init /\ [][Next]_vars

\* The schedule runs every system in every frame, and the generator's
\* choice is fair: a round without a clear, which the loop can draw in every
\* round, is drawn in the end.  The start-up frame and the frame after it
\* are followed.
InitFair == InitAt(MaxFrames - 1)

SpecFair == InitFair /\ [][Next]_vars /\ WF_vars(FillReturns)

\* The same with the scheduler's part: while a system can run, one does.
SpecSched == SpecFair /\ WF_vars(Next)

\* The game once it is playable: the start-up tweens are over, the filler
\* has filled the start board, the cursor has been moved anywhere, no input
\* is buffered; one frame is followed from there, under every order of the
\* systems.
PlayDraws == Rounds

InitPlay ==
    /\ piece_state \in {FillWriteBack(Init_piece_state, FillRound(Init_piece_state, draw)) :
                          draw \in {d \in PlayDraws : FillAccepted(FillRound(Init_piece_state, d))}}
    /\ board_location \in [x : Idx, y : Idx]
    /\ prev_input = [elapsed |-> 0, direction |-> None, shift_held |-> FALSE]
    /\ animator = [y \in Idx |-> [x \in Idx |-> 0]]
    /\ extra = [sprite |-> 0, left |-> 0, tagged |-> FALSE]
    /\ events = 0
    /\ text = 0
    /\ panicked = FALSE
    /\ delta \in Deltas
    /\ chain = 0
    /\ ran = {}
    /\ frame = MaxFrames
    /\ reset_hit = FALSE
    /\ filler = FillerIdle

NextPlay ==
    \/ update_input
    \/ move_player_cursor
    \/ maybe_reset_board
    \/ update_complete_count
    \/ randomly_fill_board
    \/ component_animator_system

SpecPlay == InitPlay /\ [][NextPlay]_vars

\* The match detector on its own: full boards with uniform lines, made from
\* a base board by overwriting whole rows and whole columns, at the moment
\* the animator has sent the slide-completion event and
\* update_complete_count is about to read it.
StampRow(b, r, p) == [b EXCEPT ![r] = [x \in Idx |-> p]]

StampCol(b, c, p) == [y \in Idx |-> [b[y] EXCEPT ![c] = p]]

StampPieces == {"Green", "Heart"}

RECURSIVE Stamped(_)
Stamped(n) ==
    IF n = 0 THEN {DrawDiagonal, DrawUniform}
    ELSE LET prev == Stamped(n - 1)
         IN  prev \cup {StampRow(b, r, p) : b \in prev, r \in Idx, p \in StampPieces}
                  \cup {StampCol(b, c, p) : b \in prev, c \in Idx, p \in StampPieces}

CountBoards == Stamped(MaxStamps)

InitCount ==
    /\ piece_state \in CountBoards
    /\ board_location = [x |-> 2, y |-> 2]
    /\ prev_input = [elapsed |-> 0, direction |-> None, shift_held |-> TRUE]
    /\ animator = [y \in Idx |-> [x \in Idx |-> 0]]
    /\ extra = [sprite |-> 0, left |-> 0, tagged |-> TRUE]
    /\ events = 1
    /\ text = 0
    /\ panicked = FALSE
    /\ delta \in Deltas
    /\ chain = 3
    /\ ran = {"randomly_fill_board", "component_animator_system"}
    /\ frame = MaxFrames
    /\ reset_hit = FALSE
    /\ filler = FillerIdle

NextCount == update_complete_count

SpecCount == InitCount /\ [][NextCount]_vars

\* The match detector looked at from both sides: the game from start-up,
\* and the boards of SpecCount.
InitDetect == Init \/ InitCount

SpecDetect == InitDetect /\ [][Next]_vars

----------------------------------------------------------------------------
(* Steps of the single systems, for the properties below.                   *)

CountStep == "update_complete_count" \notin ran /\ "update_complete_count" \in ran'

FillStep == "randomly_fill_board" \notin ran /\ "randomly_fill_board" \in ran'

InputStep == chain = 0 /\ chain' = 1

MoveStep == chain = 1 /\ chain' = 2

\* a cursor move or a slide is committed by the step
Committed ==
    \/ board_location' # board_location
    \/ extra'.left > extra.left

\* a cell is empty or the tween of some entity is not over
Blocked == anim_in_progress(animator, extra) \/ has_empty(piece_state)

\* no row and no column of the full board ps is uniform
NoUniformLine(ps) ==
    /\ \A y \in Idx : \E x \in Idx : ps[y][x] # ps[y][0]
    /\ \A x \in Idx : \E y \in Idx : ps[y][x] # ps[0][x]

----------------------------------------------------------------------------
(* Properties.                                                              *)

\* C1: whenever update_complete_count processes a slide-completion event and
\* calls count_clears, no cell of the board is empty.
C1_CountOnFullBoard ==
    [][(CountStep /\ events > 0) => ~has_empty(piece_state)]_vars

\* C2: whenever randomly_fill_board runs on a board with an empty cell, the
\* board it leaves is fully occupied and has no uniform row and no uniform
\* column (board_has_clear is false on it).
C2_FillLeavesFullBoardWithoutClear ==
    [][(FillStep /\ has_empty(piece_state))
         => /\ ~has_empty(piece_state')
            /\ NoUniformLine(piece_state')
            /\ ~board_has_clear(piece_state')]_vars

\* C2 witness: in the first frame the filler has run on the all-empty start
\* board and the board is full.
C2_Witness ==
    /\ frame = 1
    /\ "randomly_fill_board" \in ran
    /\ ~reset_hit
    /\ ~has_empty(piece_state)

\* a slide is committed by the step: move_player_cursor restarts the extra
\* entity's tween
SlideStep == MoveStep /\ extra'.left > extra.left

\* the direction of travel of a move: Up raises y, Right raises x
Travel(direction) ==
    CASE direction = "Up"    -> [x |-> 0,  y |-> 1]
      [] direction = "Down"  -> [x |-> 0,  y |-> -1]
      [] direction = "Left"  -> [x |-> -1, y |-> 0]
      [] direction = "Right" -> [x |-> 1,  y |-> 0]

\* the cell (x, y) lies on the line a slide in `direction` selects
OnLine(direction, loc, x, y) ==
    IF direction \in {"Up", "Down"} THEN x = loc.x ELSE y = loc.y

\* C3: a committed slide acts on the cursor's column (Up/Down) or row
\* (Left/Right); four of the line's five pieces move one cell in the
\* direction of travel, the fifth re-enters at the other end (a one-step
\* cyclic rotation) and is the one piece shown by the ejected extra.
C3_SlideRotatesLineByOne ==
    [][SlideStep =>
         LET d == prev_input.direction
             t == Travel(d)
         IN  /\ d \in Direction
             /\ extra'.tagged
             /\ \A y \in Idx : \A x \in Idx :
                  IF OnLine(d, board_location, x, y)
                  THEN IF x + t.x \in Idx /\ y + t.y \in Idx
                       THEN piece_state'[y + t.y][x + t.x] = piece_state[y][x]
                       ELSE /\ piece_state'[(y + t.y) % 5][(x + t.x) % 5] = piece_state[y][x]
                            /\ extra'.sprite = texture_index(piece_state[y][x])
                  ELSE piece_state'[y][x] = piece_state[y][x]]_vars

\* C3 witness: a slide has just been committed with the cursor in a corner.
C3_Witness ==
    /\ board_location = [x |-> 0, y |-> 4]
    /\ extra.tagged
    /\ extra.left = PIECE_SLICE_DURATION
    /\ ~has_empty(piece_state)
    /\ piece_state \notin PlayDraws

\* C4 as stated: after a slide Right the cursor row [A,B,C,D,E] holds
\* [E,A,B,C,D] and the extra entity shows D, the piece that was at x = 3.
C4_Original_EjectedIsD ==
    [][(SlideStep /\ prev_input.direction = "Right") =>
         LET row == piece_state[board_location.y]
         IN  /\ piece_state'[board_location.y] = [x \in Idx |-> row[(x + 4) % 5]]
             /\ extra'.sprite = texture_index(row[3])]_vars

\* C4 amended: after a slide Right the cursor row [A,B,C,D,E] holds
\* [E,A,B,C,D] and the extra entity shows E, the piece that was at x = 4.
C4_SlideRightEjectsE ==
    [][(SlideStep /\ prev_input.direction = "Right") =>
         LET row == piece_state[board_location.y]
         IN  /\ piece_state'[board_location.y] = [x \in Idx |-> row[(x + 4) % 5]]
             /\ extra'.sprite = texture_index(row[4])]_vars

\* C4 witness: row 2 of the near-clear board, Heart Checkered Green Donut
\* Flower, has been slid Right.
C4_Witness ==
    /\ board_location.y = 2
    /\ piece_state[2] = [x \in Idx |-> <<"Flower", "Heart", "Checkered", "Green", "Donut">>[x + 1]]
    /\ extra = [sprite |-> texture_index("Flower"), left |-> PIECE_SLICE_DURATION,
                tagged |-> TRUE]

\* C5 as stated: each processed slide-completion event adds the value of
\* count_clears for the current board to the displayed count.
C5_Original_Accumulates ==
    [][(CountStep /\ events > 0 /\ ~panicked')
         => text' = text + count_clears(piece_state)]_vars

\* C5 amended: each processed slide-completion event sets the displayed
\* count to the value of count_clears for the current board.
C5_CountIsLatest ==
    [][(CountStep /\ events > 0 /\ ~panicked')
         => text' = count_clears(piece_state)]_vars

\* C5 witness: the text shows the two clears of a cascade.
C5_Witness == text = 2 /\ ~has_empty(piece_state) /\ count_clears(piece_state) = 2

\* the buffered input is processed by the step: move_player_cursor passes
\* its early return and takes the direction
Processed == MoveStep /\ ~Blocked /\ prev_input.direction # None

\* C6: a buffered move processed with its timer at most 3 frame times is
\* committed in that step and cleared; processed with its timer above 3
\* frame times it is cleared and nothing else changes; and every commit
\* consumes a buffered move, which only a key press puts there.
C6_OneMovePerKeyEdge ==
    [][/\ Processed =>
            /\ prev_input'.direction = None
            /\ prev_input.elapsed <= STALE_FRAMES => Committed
            /\ prev_input.elapsed > STALE_FRAMES =>
                 /\ piece_state' = piece_state
                 /\ board_location' = board_location
                 /\ animator' = animator
                 /\ extra' = extra
       /\ Committed => Processed /\ prev_input'.direction = None
       /\ (prev_input'.direction # None /\ prev_input' # prev_input)
            => InputStep]_vars

\* C6 witness: a key press moved the cursor by a cell and a later one was
\* discarded as stale (the stopwatch stands above 3 frame times with
\* nothing buffered).
C6_Witness ==
    /\ prev_input.direction = None
    /\ prev_input.elapsed > STALE_FRAMES
    /\ board_location \in {[x |-> 2, y |-> 3], [x |-> 3, y |-> 2]}
    /\ ~extra.tagged

\* C7: while a cell is empty or a tween (the extra's included) is not over,
\* move processing changes neither board nor cursor, and no step commits a
\* cursor move or a slide.
C7_NoMoveWhileBlocked ==
    [][Blocked =>
         /\ ~Committed
         /\ board_location' = board_location
         /\ MoveStep => piece_state' = piece_state /\ animator' = animator
                        /\ extra' = extra]_vars

\* C7 witness: a slide's tweens are running and move_player_cursor has run
\* with a key press buffered, which it left alone.
C7_Witness ==
    /\ extra.tagged
    /\ extra.left > 0
    /\ chain = 2
    /\ prev_input.direction # None
    /\ ~has_empty(piece_state)

\* row r of ps is uniform over the columns in cols
RowUniformOver(ps, r, cols) == \A a \in cols : \A b \in cols : ps[r][a] = ps[r][b]

\* column c of ps is uniform over the rows in rows
ColUniformOver(ps, c, rows) == \A a \in rows : \A b \in rows : ps[a][c] = ps[b][c]

\* row r is uniform, and column c, not uniform over all rows, is uniform
\* over the rows other than r
CascadeCase(ps, r, c) ==
    /\ ~has_empty(ps)
    /\ RowUniformOver(ps, r, Idx)
    /\ ~ColUniformOver(ps, c, Idx)
    /\ ColUniformOver(ps, c, Idx \ {r})

\* C8: on a full board with a uniform row r and a column c that is uniform
\* only over the rows other than r, count_clears claims both r and c and
\* returns at least 2, which is what update_complete_count then shows.
C8_CascadeCountsRowAndColumn ==
    \A r \in Idx : \A c \in Idx :
        CascadeCase(piece_state, r, c) =>
            LET run == count_clears_run(piece_state)
            IN  /\ run.cnt >= 2
                /\ Bit(run.ignored_rows, r)
                /\ Bit(run.ignored_cols, c)
                /\ "update_complete_count" \in ran => text = run.cnt

\* C8 witness: update_complete_count has counted a board with such a row
\* and column and shows exactly these two clears.
C8_Witness ==
    /\ \E r \in Idx : \E c \in Idx : CascadeCase(piece_state, r, c)
    /\ "update_complete_count" \in ran
    /\ text = 2

\* C9 as stated: a board emptied by a reset is full again by the end of the
\* following frame under every order of the systems (after the filler has
\* run in a frame the board is empty only if Space was pressed in that same
\* frame, and a board emptied before the last frame followed does get
\* refilled), and nothing is committed while the board is empty.
C9_RefilledByNextFrame ==
    /\ []((("randomly_fill_board" \in ran) /\ has_empty(piece_state))
            => (reset_hit /\ chain = 3))
    /\ [][has_empty(piece_state) => ~Committed]_vars
    /\ (reset_hit /\ has_empty(piece_state) /\ frame < MaxFrames)
          ~> ~has_empty(piece_state)

\* C10: in every frame the board refill runs only after that frame's input
\* capture and commit step (update_input, then move_player_cursor).
C10_FillAfterInputAndCommit ==
    "randomly_fill_board" \in ran => chain >= 2

\* a plain (non-slide) move is fired by the step: move processing is not
\* blocked and the buffered input is fresh and has no slide modifier
PlainMoveStep ==
    /\ MoveStep
    /\ ~Blocked
    /\ prev_input.direction # None
    /\ prev_input.elapsed <= STALE_FRAMES
    /\ ~prev_input.shift_held

\* C11: the cursor is in [0,4]x[0,4] in every reachable state, and a plain
\* cursor move changes exactly one coordinate, by +1 or -1 modulo 5 (Up from
\* y = 4 gives y = 0, Left from x = 0 gives x = 4), and always moves the
\* cursor.
C11_CursorMoveWraps ==
    /\ [](board_location \in [x : Idx, y : Idx])
    /\ [][PlainMoveStep =>
            LET d == prev_input.direction
                t == Travel(d)
            IN  /\ board_location'.x = (board_location.x + t.x + 5) % 5
                /\ board_location'.y = (board_location.y + t.y + 5) % 5
                /\ board_location' # board_location
                /\ (board_location'.x = board_location.x)
                     # (board_location'.y = board_location.y)
                /\ (d = "Up" /\ board_location.y = 4) => board_location'.y = 0
                /\ (d = "Left" /\ board_location.x = 0) => board_location'.x = 4]_vars

\* C11 witness: move_player_cursor has just taken a plain move and the
\* cursor stands in the corner that Up from y = 4 and Left from x = 0 lead to.
C11_Witness ==
    /\ chain = 2
    /\ board_location = [x |-> 4, y |-> 0]
    /\ prev_input = [elapsed |-> 0, direction |-> None, shift_held |-> FALSE]
    /\ ~extra.tagged
    /\ ~Blocked

\* the pieces of the line a slide in `direction` selects, in ascending index
\* order (ascending y for a column, ascending x for a row)
LinePieces(ps, direction, loc) ==
    IF direction \in {"Up", "Down"}
    THEN [i \in 1..5 |-> ps[i - 1][loc.x]]
    ELSE [i \in 1..5 |-> ps[loc.y][i - 1]]

\* the sequence s with every element moved k positions toward the higher
\* indices, cyclically
Shifted(s, k) == [i \in 1..5 |-> s[((i - 1 + 5 - k) % 5) + 1]]

\* the committed slide moved the line's sequence by k positions toward the
\* higher indices
SlideShiftedBy(k) ==
    LinePieces(piece_state', prev_input.direction, board_location)
        = Shifted(LinePieces(piece_state, prev_input.direction, board_location), k)

\* a slide in direction d from the current state would move its line's
\* sequence by k positions toward the higher indices
WouldShiftBy(d, k) ==
    LinePieces(SlideBoard(piece_state, d, board_location), d, board_location)
        = Shifted(LinePieces(piece_state, d, board_location), k)

\* C12 as stated: Up and Left rotate the line's sequence by one position in
\* one index direction, Down and Right by one position in the other: with k
\* the shift the committed slide made (1, or 4 for one position toward the
\* lower indices), a slide from the same state in a direction of its pair
\* shifts by k and one in a direction of the other pair by 5 - k.
C12_Original_UpLeftSameWay ==
    [][SlideStep =>
         \E k \in {1, 4} :
            /\ SlideShiftedBy(k)
            /\ \A d \in Direction :
                 WouldShiftBy(d, IF (d \in {"Up", "Left"})
                                      = (prev_input.direction \in {"Up", "Left"})
                                    THEN k ELSE 5 - k)]_vars

\* C12 amended: Up and Right rotate the line's sequence by one position
\* toward the higher indices (the piece at index i goes to i + 1, the one at
\* 4 to 0); Down and Left rotate it by one position toward the lower indices.
C12_UpRightSameWay ==
    [][SlideStep =>
         /\ ~SlideShiftedBy(0)
         /\ IF prev_input.direction \in {"Up", "Right"}
            THEN SlideShiftedBy(1) /\ ~SlideShiftedBy(4)
            ELSE SlideShiftedBy(4) /\ ~SlideShiftedBy(1)]_vars

\* C12 witness: column 0 of the near-clear board, Heart Heart Heart Green
\* Heart from y = 0, has been slid Down or row 3, Green Green Flower Green
\* Green, has been slid Left.
C12_Witness ==
    /\ extra.tagged
    /\ extra.left = PIECE_SLICE_DURATION
    /\ \/ /\ board_location.x = 0
          /\ LinePieces(piece_state, "Down", board_location)
               = <<"Heart", "Heart", "Green", "Heart", "Heart">>
       \/ /\ board_location.y = 3
          /\ LinePieces(piece_state, "Left", board_location)
               = <<"Green", "Flower", "Green", "Green", "Green">>

\* the counters at the start of every pass count_clears makes on ps, in
\* order, from the pass that starts with the counters st
RECURSIVE PassStarts(_, _)
PassStarts(ps, st) ==
    LET after == ClearPass(ps, st)
    IN  IF after.panic \/ ClearLoopExit(st.cnt, after) THEN <<st>>
        ELSE <<st>> \o PassStarts(ps, after)

\* the mask with the bits of all five lines set
ALL_CLAIMED == SetBit(SetBit(SetBit(SetBit(SetBit(0, 0), 1), 2), 3), 4)

\* C13: count_clears stops as soon as a pass ends with no new line claimed,
\* or with all five rows claimed, or with all five columns claimed: on the
\* board update_complete_count has just counted, no pass started with all
\* five rows or all five columns already claimed.
C13_NoPassStartsFullyClaimed ==
    ("update_complete_count" \in ran /\ ~panicked) =>
        LET starts == PassStarts(piece_state,
                                 [cnt |-> 0, ignored_rows |-> 0,
                                  ignored_cols |-> 0, panic |-> FALSE])
        IN  \A i \in 1..Len(starts) :
               /\ starts[i].ignored_rows # ALL_CLAIMED
               /\ starts[i].ignored_cols # ALL_CLAIMED

\* the columns claimed at the end of a pass that starts with the counters
\* st, were every column tested over the rows unclaimed before the pass
SnapshotClaimedCols(ps, st) ==
    {c \in Idx : \/ Bit(st.ignored_cols, c)
                 \/ all_equal(ColItems(ps, c, st.ignored_rows)).eq}

\* C14: within one pass the row scan and the column scan both use the
\* claimed sets as they were before the pass began: on the board
\* update_complete_count has just counted, the columns claimed at the end of
\* each pass are those claimed before it and those uniform over the rows
\* that were unclaimed before it.
C14_ColumnScanUsesPrePassRows ==
    ("update_complete_count" \in ran /\ ~panicked) =>
        LET starts == PassStarts(piece_state,
                                 [cnt |-> 0, ignored_rows |-> 0,
                                  ignored_cols |-> 0, panic |-> FALSE])
        IN  \A i \in 1..Len(starts) :
               {c \in Idx : Bit(ClearPass(piece_state, starts[i]).ignored_cols, c)}
                   = SnapshotClaimedCols(piece_state, starts[i])

\* C15 as stated: a pending move lives for exactly one processing tick: the
\* first run of move_player_cursor after the key press leaves no direction
\* buffered, also while a tween is running or a cell is empty.
C15_Original_IdleAfterOneTick ==
    [][(MoveStep /\ prev_input.direction # None)
         => prev_input'.direction = None]_vars

\* C15 amended: a run of move_player_cursor while a tween is running or a
\* cell is empty leaves the pending move and its timer as they are; the
\* timer then advances by the delta of every frame without a new direction
\* key; the first run that is not blocked takes the move, fires it when the
\* timer is at most 3 frame times, drops it otherwise, and leaves no
\* direction buffered.
C15_PendingUntilUnblocked ==
    [][/\ (MoveStep /\ prev_input.direction # None) =>
            IF Blocked
            THEN /\ prev_input' = prev_input
                 /\ ~Committed
            ELSE /\ prev_input'.direction = None
                 /\ prev_input'.elapsed = prev_input.elapsed
                 /\ Committed = (prev_input.elapsed <= STALE_FRAMES)
       /\ (InputStep /\ prev_input.direction # None) =>
            \/ /\ prev_input'.direction \in Direction
               /\ prev_input'.elapsed = 0
            \/ prev_input' = [prev_input EXCEPT
                                !.elapsed = Min(@ + delta, ElapsedCap)]
       /\ (~MoveStep /\ ~InputStep) => prev_input' = prev_input]_vars

\* C15 witness: a plain move was fired with its timer at one frame time: it
\* was buffered in an earlier frame, survived a blocked run of
\* move_player_cursor, and moved the cursor by a cell in a later frame.
C15_Witness ==
    /\ prev_input = [elapsed |-> 1, direction |-> None, shift_held |-> FALSE]
    /\ board_location \in {[x |-> 3, y |-> 2], [x |-> 1, y |-> 2],
                           [x |-> 2, y |-> 3], [x |-> 2, y |-> 1]}
    /\ ~extra.tagged
    /\ frame = 2

\* a plain cursor move is committed by the step
CursorStep == MoveStep /\ board_location' # board_location

\* C16: a committed slide changes the piece of no cell outside the cursor's
\* column (Up, Down) or row (Left, Right) and leaves the cursor where it is;
\* a committed plain cursor move changes the piece of no cell and starts no
\* tween.
C16_SlideStaysOnLine ==
    [][/\ SlideStep =>
            /\ board_location' = board_location
            /\ \A y \in Idx : \A x \in Idx :
                 ~OnLine(prev_input.direction, board_location, x, y)
                    => /\ piece_state'[y][x] = piece_state[y][x]
                       /\ animator'[y][x] = animator[y][x]
            /\ piece_state' # piece_state
       /\ CursorStep =>
            /\ piece_state' = piece_state
            /\ animator' = animator
            /\ extra' = extra]_vars

\* C16 witness: column 3 of a drawn board has been slid with the cursor
\* at (3, 1): the column differs from the drawn one, every other cell holds
\* the piece drawn for it, and the cursor has not moved.
C16_Witness ==
    /\ board_location = [x |-> 3, y |-> 1]
    /\ extra.tagged
    /\ extra.left = PIECE_SLICE_DURATION
    /\ \A y \in Idx : \A x \in Idx \ {3} : piece_state[y][x] = DrawNearClear[y][x]
    /\ \E y \in Idx : piece_state[y][3] # DrawNearClear[y][3]

\* the number of cells of ps that hold p
CountOf(ps, p) == Cardinality({c \in Idx \X Idx : ps[c[1]][c[2]] = p})

\* C17: a slide commit creates no empty cell and keeps the number of pieces
\* of every kind; the only step that makes a cell empty is maybe_reset_board
\* with Space pressed; and randomly_fill_board changes the board only when
\* every cell is empty (after a reset or at start-up), never after a slide.
C17_SlideKeepsBoardFull ==
    [][/\ SlideStep =>
            /\ ~has_empty(piece_state)
            /\ ~has_empty(piece_state')
            /\ \A p \in Piece : CountOf(piece_state', p) = CountOf(piece_state, p)
       /\ (has_empty(piece_state') /\ ~has_empty(piece_state))
            => (chain = 2 /\ chain' = 3 /\ reset_hit')
       /\ (FillStep /\ piece_state' # piece_state)
            => piece_state = Init_piece_state]_vars

\* C17 witness: a slide was committed in the first frame and the filler has
\* run in the second frame: the board is full and still holds the slid
\* pieces, not a new draw.
C17_Witness ==
    /\ frame = 2
    /\ chain = 0
    /\ "randomly_fill_board" \in ran
    /\ extra.tagged
    /\ ~has_empty(piece_state)
    /\ piece_state # DrawNearClear
    /\ \A p \in Piece : CountOf(piece_state, p) = CountOf(DrawNearClear, p)

\* C18: in every reachable state with an empty cell the occupied cells admit
\* a draw for the empty cells that the filler's loop accepts (no uniform row
\* or column), and under fair random choice a loop that has rejected a round
\* exits in the end, with the board full.
C18_FillLoopExits ==
    /\ [](has_empty(piece_state) =>
            \E round \in Rounds :
               /\ round \in Draws
               /\ FillAccepted(FillRound(piece_state, round))
               /\ ~has_empty(FillRound(piece_state, round)))
    /\ (filler.pc = "loop")
         ~> (filler.pc = "idle" /\ ~has_empty(piece_state))

\* C18 witness: a slide was committed and the board reset, and the filler's
\* loop has drawn a round for the empty board and rejected it for its
\* uniform column.
C18_Witness ==
    /\ filler.pc = "loop"
    /\ extra.tagged
    /\ frame = MaxFrames
    /\ \A y \in Idx : \A x \in Idx : piece_state[y][x] = None
    /\ board_has_clear(filler.filled_board)

\* every cell of ps is empty
AllEmpty(ps) == \A y \in Idx : \A x \in Idx : ps[y][x] = None

\* every cell of ps holds a piece
AllOccupied(ps) == \A y \in Idx : \A x \in Idx : ps[y][x] \in Piece

\* C19: between any two systems the board is either completely empty or
\* completely full; no state has some cells empty and some occupied.
C19_EmptyOrFull == AllEmpty(piece_state) \/ AllOccupied(piece_state)

\* C19 witness: a board that was filled and slid has been emptied by a
\* reset, the slide's tweens still running.
C19_Witness ==
    /\ AllEmpty(piece_state)
    /\ reset_hit
    /\ extra.tagged
    /\ extra.left > 0

\* C20: on every full board count_clears returns 0 exactly when
\* board_has_clear returns false (no row and no column is uniform), and the
\* board the filler leaves has a count_clears of 0.
C20_DetectorsAgree ==
    /\ [](AllOccupied(piece_state) =>
            LET run == count_clears_run(piece_state)
            IN  /\ (run.cnt = 0) = ~board_has_clear(piece_state)
                /\ (run.cnt = 0) = NoUniformLine(piece_state)
                /\ ~run.panic)
    /\ [][(FillStep /\ piece_state' # piece_state)
            => /\ AllOccupied(piece_state')
               /\ count_clears(piece_state') = 0]_vars

\* C20 witness: a slide has made a uniform line on the filled board, both
\* detectors report it, and update_complete_count shows the count.
C20_Witness ==
    /\ AllOccupied(piece_state)
    /\ extra.tagged
    /\ board_has_clear(piece_state)
    /\ count_clears(piece_state) > 0
    /\ "update_complete_count" \in ran
    /\ text = count_clears(piece_state)

\* the lines whose bit is set in mask
Claimed(mask) == {n \in Idx : Bit(mask, n)}

\* C21: on every full board count_clears returns (within at most 11
\* passes, without a panic) a value from 0 to 10 that is the number of
\* claimed rows plus the number of claimed columns; from one pass to the
\* next the claimed sets only grow and cnt grows by the number of lines
\* newly claimed, so no line is counted twice; and the run of
\* update_complete_count that calls it leaves the board as it is and shows
\* the value.
C21_CountIsClaimedLines ==
    /\ [](AllOccupied(piece_state) =>
            LET start  == [cnt |-> 0, ignored_rows |-> 0, ignored_cols |-> 0,
                           panic |-> FALSE]
                run    == count_clears_run(piece_state)
                starts == PassStarts(piece_state, start)
            IN  /\ ~run.panic
                /\ run.cnt \in 0..10
                /\ run.cnt = Cardinality(Claimed(run.ignored_rows))
                               + Cardinality(Claimed(run.ignored_cols))
                /\ Len(starts) <= 11
                /\ \A i \in 1..Len(starts) :
                     LET a == starts[i]
                         b == ClearPass(piece_state, a)
                     IN  /\ Claimed(a.ignored_rows) \subseteq Claimed(b.ignored_rows)
                         /\ Claimed(a.ignored_cols) \subseteq Claimed(b.ignored_cols)
                         /\ b.cnt - a.cnt
                              = Cardinality(Claimed(b.ignored_rows) \ Claimed(a.ignored_rows))
                                + Cardinality(Claimed(b.ignored_cols) \ Claimed(a.ignored_cols)))
    /\ [][(CountStep /\ events > 0 /\ AllOccupied(piece_state))
            => /\ piece_state' = piece_state
               /\ text' = count_clears(piece_state)
               /\ ~panicked']_vars

\* C21 witness: update_complete_count has counted a board on which
\* count_clears makes three passes and claims all five rows and all five
\* columns, and shows 10.
C21_Witness ==
    /\ AllOccupied(piece_state)
    /\ "update_complete_count" \in ran
    /\ text = 10
    /\ Len(PassStarts(piece_state, [cnt |-> 0, ignored_rows |-> 0,
                                    ignored_cols |-> 0, panic |-> FALSE])) = 3
    /\ Claimed(count_clears_run(piece_state).ignored_rows) = Idx
    /\ Claimed(count_clears_run(piece_state).ignored_cols) = Idx

====
